---- MODULE Spec2Model ----
(***************************************************************************)
(* Model of the YAML Pod-manifest validator (yamlvalid): validatePod and   *)
(* the field validators it calls, applied to position-annotated yaml.Node  *)
(* trees.  Strings are TLA+ strings; TLC evaluates Len, SubSeq and \o on   *)
(* them, so the string grammars are computed character by character.       *)
(***************************************************************************)
EXTENDS Integers, Sequences, FiniteSets, TLC

VARIABLES
    file,   \* os.Args[1], the path handed to validatePod
    root,   \* the yaml.Node handed to validatePod (never written by it)
    errs,   \* the []ValError of the latest validatePod run
    prev,   \* the []ValError of the run before the latest one
    runs,   \* number of validatePod runs made over root
    out,    \* the lines written to standard error
    exit    \* <<>> while the process runs, then <<exit code>>

vars == <<file, root, errs, prev, runs, out, exit>>

----------------------------------------------------------------------------
(* yaml.Node: Kind, Tag, Value, Line, Content.  A nil *yaml.Node is Nil.   *)

DocumentNode == "DocumentNode"
SequenceNode == "SequenceNode"
MappingNode  == "MappingNode"
ScalarNode   == "ScalarNode"
AliasNode    == "AliasNode"
ZeroKind     == "ZeroKind"

Nil == [Kind |-> "nil", Tag |-> "", Value |-> "", Line |-> 0, Content |-> <<>>]

\* var root yaml.Node, left untouched by yaml.Unmarshal on empty input
ZeroNode == [Kind |-> ZeroKind, Tag |-> "", Value |-> "", Line |-> 0, Content |-> <<>>]

ValError(f, line, msg) == [File |-> f, Line |-> line, Msg |-> msg]

ve(f, line, msg) == ValError(f, line, msg)

----------------------------------------------------------------------------
(* Characters and the strings / strconv helpers the validators use.        *)

Lower == {"a","b","c","d","e","f","g","h","i","j","k","l","m",
          "n","o","p","q","r","s","t","u","v","w","x","y","z"}

DigitChars == "0123456789"

Digits == {SubSeq(DigitChars, i, i) : i \in 1..10}

Space == {" ", "\t", "\n", "\r"}

CharAt(s, i) == SubSeq(s, i + 1, i + 1)      \* s[i], 0-based as in Go

DigitVal(c) == (CHOOSE i \in 1..10 : SubSeq(DigitChars, i, i) = c) - 1

HasPrefix(s, p) == Len(s) >= Len(p) /\ SubSeq(s, 1, Len(p)) = p

HasSuffix(s, p) == Len(s) >= Len(p) /\ SubSeq(s, Len(s) - Len(p) + 1, Len(s)) = p

\* strings.LastIndex(s, c) for a one-character c: 0-based, -1 when absent
LastIndex(s, c) ==
    LET at == {i \in 0..(Len(s) - 1) : CharAt(s, i) = c}
    IN  IF at = {} THEN -1 ELSE CHOOSE i \in at : \A j \in at : j <= i

\* strings.TrimSpace
TrimSpace(s) ==
    LET keep == {i \in 1..Len(s) : SubSeq(s, i, i) \notin Space}
    IN  IF keep = {} THEN ""
        ELSE SubSeq(s, CHOOSE i \in keep : \A j \in keep : i <= j,
                       CHOOSE i \in keep : \A j \in keep : j <= i)

RECURSIVE DecimalValue(_)
DecimalValue(ds) ==
    IF Len(ds) = 0 THEN 0
    ELSE 10 * DecimalValue(SubSeq(ds, 1, Len(ds) - 1)) + DigitVal(SubSeq(ds, Len(ds), Len(ds)))

RECURSIVE StripZeros(_)
StripZeros(ds) ==
    IF Len(ds) > 1 /\ SubSeq(ds, 1, 1) = "0" THEN StripZeros(SubSeq(ds, 2, Len(ds))) ELSE ds

\* strconv.Atoi / strconv.ParseInt(s, 10, 64): optional sign, then one or more
\* decimal digits.  err stands for a non-nil error (syntax or int64 range).
\* More than 18 significant digits overflow int64 or come within a digit of
\* it; the inputs of this model stay below ten digits, where the value is
\* computed exactly.
Atoi(s) ==
    LET signed == Len(s) > 0 /\ SubSeq(s, 1, 1) \in {"+", "-"}
        ds     == IF signed THEN SubSeq(s, 2, Len(s)) ELSE s
        neg    == signed /\ SubSeq(s, 1, 1) = "-"
        sig    == StripZeros(ds)
    IN  IF Len(ds) = 0 \/ \E i \in 1..Len(ds) : SubSeq(ds, i, i) \notin Digits
        THEN [err |-> TRUE, v |-> 0]
        ELSE IF Len(sig) > 18
        THEN [err |-> TRUE, v |-> 0]
        ELSE [err |-> FALSE, v |-> IF neg THEN 0 - DecimalValue(sig) ELSE DecimalValue(sig)]

RECURSIVE Itoa(_)
\* fmt's %d
Itoa(n) ==
    IF n < 0 THEN "-" \o Itoa(0 - n)
    ELSE IF n < 10 THEN SubSeq(DigitChars, n + 1, n + 1)
    ELSE Itoa(n \div 10) \o SubSeq(DigitChars, (n % 10) + 1, (n % 10) + 1)

----------------------------------------------------------------------------
(* Node accessors.                                                         *)

\* get: the value of the first pair whose key is a scalar with Value = key
get(m, key) ==
    IF m = Nil \/ m.Kind # MappingNode THEN Nil
    ELSE LET hits == {i \in 1..(Len(m.Content) \div 2) :
                         /\ m.Content[2 * i - 1].Kind = ScalarNode
                         /\ m.Content[2 * i - 1].Value = key}
         IN  IF hits = {} THEN Nil
             ELSE m.Content[2 * (CHOOSE i \in hits : \A j \in hits : i <= j)]

mustGet(m, key) == get(m, key)

\* firstDocument unwrapping document markers only
firstDocument_DocumentOnly(r) ==
    IF r = Nil THEN Nil
    ELSE IF r.Kind = DocumentNode /\ Len(r.Content) > 0 THEN r.Content[1]
    ELSE Nil

firstDocument(r) ==
    IF r = Nil THEN Nil
    ELSE IF r.Kind = DocumentNode /\ Len(r.Content) > 0 THEN r.Content[1]
    ELSE IF Len(r.Content) > 0 THEN r.Content[1]
    ELSE Nil

IsStr(n) == n.Kind = ScalarNode /\ n.Tag = "!!str"


----------------------------------------------------------------------------
(* Leaf validators.                                                        *)

validateScalarType(f, n, field, want) ==
    IF want = "string"
    THEN IF n.Kind # ScalarNode \/ n.Tag # "!!str"
         THEN <<ve(f, n.Line, field \o " must be " \o want)>>
         ELSE <<>>
    ELSE <<ve(f, n.Line, field \o " must be " \o want)>>

validateStringEquals(f, n, field, allowed) ==
    IF n.Kind # ScalarNode \/ n.Tag # "!!str"
    THEN <<ve(f, n.Line, field \o " must be string")>>
    ELSE IF \E i \in 1..Len(allowed) : n.Value = allowed[i]
    THEN <<>>
    ELSE <<ve(f, n.Line, field \o " has unsupported value '" \o n.Value \o "'")>>

PortLimit == 65536

validatePortInt(f, n, field) ==
    IF n.Kind # ScalarNode
    THEN <<ve(f, n.Line, field \o " must be int")>>
    ELSE LET r == Atoi(TrimSpace(n.Value))
         IN  IF r.err
             THEN <<ve(f, n.Line, field \o " must be int")>>
             ELSE IF r.v <= 0 \/ r.v >= PortLimit
             THEN <<ve(f, n.Line, field \o " value out of range")>>
             ELSE <<>>

RegistryPrefix == "registry.bigbrother.io/"

\* validImage letting the colon be the last character
validImage_EmptyTag(s) ==
    IF ~HasPrefix(s, RegistryPrefix) THEN FALSE
    ELSE LET lastSlash == LastIndex(s, "/")
             colon     == LastIndex(s, ":")
         IN  colon > lastSlash /\ colon < Len(s)

validImage(s) ==
    IF ~HasPrefix(s, RegistryPrefix) THEN FALSE
    ELSE LET lastSlash == LastIndex(s, "/")
             colon     == LastIndex(s, ":")
         IN  colon > lastSlash /\ colon < Len(s) - 1

\* memRe = ^[0-9]+(Ki|Mi|Gi)$
memReMatch(s) ==
    /\ Len(s) >= 3
    /\ SubSeq(s, Len(s) - 1, Len(s)) \in {"Ki", "Mi", "Gi"}
    /\ \A i \in 1..(Len(s) - 2) : SubSeq(s, i, i) \in Digits

validMemory(s) == memReMatch(TrimSpace(s))

RECURSIVE nameReFrom(_, _, _)
\* nameRe = ^[a-z]+(_[a-z0-9]+)*$ as an automaton over s from 0-based index i:
\* "first" inside the leading [a-z]+, "under" right after an underscore,
\* "part" inside a later [a-z0-9]+
nameReFrom(s, i, st) ==
    IF i = Len(s) THEN st \in {"first", "part"}
    ELSE LET c == CharAt(s, i)
         IN  CASE st = "start" -> c \in Lower /\ nameReFrom(s, i + 1, "first")
               [] st = "first" -> \/ c \in Lower /\ nameReFrom(s, i + 1, "first")
                                  \/ c = "_" /\ nameReFrom(s, i + 1, "under")
               [] st = "under" -> c \in Lower \cup Digits /\ nameReFrom(s, i + 1, "part")
               [] OTHER        -> \/ c \in Lower \cup Digits /\ nameReFrom(s, i + 1, "part")
                                  \/ c = "_" /\ nameReFrom(s, i + 1, "under")

nameReMatch(s) == nameReFrom(s, 0, "start")

----------------------------------------------------------------------------
(* Composite validators.                                                   *)

RECURSIVE labelsLoop(_, _, _)
\* the loop over labels.Content, i the 0-based index of the pair's key
labelsLoop(f, labels, i) ==
    IF i >= Len(labels.Content) THEN <<>>
    ELSE LET k == labels.Content[i + 1]
             v == labels.Content[i + 2]
         IN  (IF k.Kind # ScalarNode \/ k.Tag # "!!str"
              THEN <<ve(f, k.Line, "metadata.labels key must be string")>> ELSE <<>>)
             \o (IF v.Kind # ScalarNode \/ v.Tag # "!!str"
                 THEN <<ve(f, v.Line, "metadata.labels value must be string")>> ELSE <<>>)
             \o labelsLoop(f, labels, i + 2)

validateObjectMeta(f, n) ==
    IF n.Kind # MappingNode
    THEN <<ve(f, n.Line, "metadata must be object")>>
    ELSE LET name   == mustGet(n, "name")
             ns     == get(n, "namespace")
             labels == get(n, "labels")
         IN  (IF name = Nil
              THEN <<ve(f, 0, "metadata.name is required")>>
              ELSE validateScalarType(f, name, "metadata.name", "string"))
             \o (IF ns # Nil
                 THEN validateScalarType(f, ns, "metadata.namespace", "string")
                 ELSE <<>>)
             \o (IF labels # Nil
                 THEN IF labels.Kind # MappingNode
                      THEN <<ve(f, labels.Line, "metadata.labels must be object")>>
                      ELSE labelsLoop(f, labels, 0)
                 ELSE <<>>)

allowedOS == {"linux", "windows"}

\* validatePodOS comparing the value as written, without strings.TrimSpace
validatePodOS_NoTrim(f, n) ==
    IF n.Kind = ScalarNode
    THEN IF n.Tag # "!!str"
         THEN <<ve(f, n.Line, "os must be string")>>
         ELSE IF n.Value \notin allowedOS
         THEN <<ve(f, n.Line, "os has unsupported value '" \o n.Value \o "'")>>
         ELSE <<>>
    ELSE IF n.Kind # MappingNode
    THEN <<ve(f, n.Line, "os must be object")>>
    ELSE LET name == mustGet(n, "name")
         IN  IF name = Nil
             THEN <<ve(f, 0, "os.name is required")>>
             ELSE IF name.Kind # ScalarNode \/ name.Tag # "!!str"
             THEN <<ve(f, name.Line, "os.name must be string")>>
             ELSE IF name.Value \notin allowedOS
             THEN <<ve(f, name.Line, "os.name has unsupported value '" \o name.Value \o "'")>>
             ELSE <<>>

validatePodOS(f, n) ==
    IF n.Kind = ScalarNode
    THEN IF n.Tag # "!!str"
         THEN <<ve(f, n.Line, "os must be string")>>
         ELSE IF TrimSpace(n.Value) \notin allowedOS
         THEN <<ve(f, n.Line, "os has unsupported value '" \o n.Value \o "'")>>
         ELSE <<>>
    ELSE IF n.Kind # MappingNode
    THEN <<ve(f, n.Line, "os must be object")>>
    ELSE LET name == mustGet(n, "name")
         IN  IF name = Nil
             THEN <<ve(f, 0, "os.name is required")>>
             ELSE IF name.Kind # ScalarNode \/ name.Tag # "!!str"
             THEN <<ve(f, name.Line, "os.name must be string")>>
             ELSE IF TrimSpace(name.Value) \notin allowedOS
             THEN <<ve(f, name.Line, "os.name has unsupported value '" \o name.Value \o "'")>>
             ELSE <<>>

\* one iteration of the loop of validatePorts
portEntry(f, p) ==
    IF p.Kind # MappingNode
    THEN <<ve(f, p.Line, "ports must be object")>>
    ELSE LET cp    == mustGet(p, "containerPort")
             proto == get(p, "protocol")
         IN  (IF cp = Nil
              THEN <<ve(f, 0, "containerPort is required")>>
              ELSE validatePortInt(f, cp, "containerPort"))
             \o (IF proto # Nil
                 THEN IF proto.Kind # ScalarNode \/ proto.Tag # "!!str"
                      THEN <<ve(f, proto.Line, "protocol must be string")>>
                      ELSE IF proto.Value # "TCP" /\ proto.Value # "UDP"
                      THEN <<ve(f, proto.Line, "protocol has unsupported value '" \o proto.Value \o "'")>>
                      ELSE <<>>
                 ELSE <<>>)

RECURSIVE portsLoop(_, _, _)
portsLoop(f, n, i) ==
    IF i > Len(n.Content) THEN <<>>
    ELSE portEntry(f, n.Content[i]) \o portsLoop(f, n, i + 1)

\* validatePorts going on into the entries of a node that is no array
validatePorts_NoReturn(f, n) ==
    IF n.Kind # SequenceNode
    THEN <<ve(f, n.Line, "ports must be array")>> \o portsLoop(f, n, 1)
    ELSE portsLoop(f, n, 1)

validatePorts(f, n) ==
    IF n.Kind # SequenceNode
    THEN <<ve(f, n.Line, "ports must be array")>>
    ELSE portsLoop(f, n, 1)

validateHTTPGet(f, n, field) ==
    IF n.Kind # MappingNode
    THEN <<ve(f, n.Line, field \o " must be object")>>
    ELSE LET path == mustGet(n, "path")
             port == mustGet(n, "port")
         IN  (IF path = Nil
              THEN <<ve(f, 0, "path is required")>>
              ELSE IF path.Kind # ScalarNode \/ path.Tag # "!!str"
              THEN <<ve(f, path.Line, "path must be string")>>
              ELSE IF ~HasPrefix(path.Value, "/")
              THEN <<ve(f, path.Line, "path has invalid format '" \o path.Value \o "'")>>
              ELSE <<>>)
             \o (IF port = Nil
                 THEN <<ve(f, 0, "port is required")>>
                 ELSE validatePortInt(f, port, "port"))

validateProbe(f, n, field) ==
    IF n.Kind # MappingNode
    THEN <<ve(f, n.Line, field \o " must be object")>>
    ELSE LET httpGet == mustGet(n, "httpGet")
         IN  IF httpGet = Nil
             THEN <<ve(f, 0, field \o ".httpGet is required")>>
             ELSE validateHTTPGet(f, httpGet, field \o ".httpGet")

validateResourceMap(f, n, field) ==
    IF n.Kind # MappingNode
    THEN <<ve(f, n.Line, field \o " must be object")>>
    ELSE LET cpu == get(n, "cpu")
             mem == get(n, "memory")
         IN  (IF cpu # Nil
              THEN IF cpu.Kind # ScalarNode
                   THEN <<ve(f, cpu.Line, "cpu must be int")>>
                   ELSE IF Atoi(TrimSpace(cpu.Value)).err
                   THEN <<ve(f, cpu.Line, "cpu must be int")>>
                   ELSE <<>>
              ELSE <<>>)
             \o (IF mem # Nil
                 THEN IF mem.Kind # ScalarNode \/ mem.Tag # "!!str"
                      THEN <<ve(f, mem.Line, "memory must be string")>>
                      ELSE IF ~validMemory(mem.Value)
                      THEN <<ve(f, mem.Line, "memory has invalid format '" \o mem.Value \o "'")>>
                      ELSE <<>>
                 ELSE <<>>)

validateResources(f, n) ==
    IF n.Kind # MappingNode
    THEN <<ve(f, n.Line, "resources must be object")>>
    ELSE LET req == get(n, "requests")
             lim == get(n, "limits")
         IN  (IF req # Nil THEN validateResourceMap(f, req, "resources.requests") ELSE <<>>)
             \o (IF lim # Nil THEN validateResourceMap(f, lim, "resources.limits") ELSE <<>>)

\* the name check of one container; seenNames as before this container
containerName(f, c, idx, seenNames) ==
    LET name == mustGet(c, "name")
    IN  IF name = Nil
        THEN <<ve(f, 0, "spec.containers[" \o Itoa(idx) \o "].name is required")>>
        ELSE IF name.Kind # ScalarNode \/ name.Tag # "!!str"
        THEN <<ve(f, name.Line, "containers.name must be string")>>
        ELSE (IF ~nameReMatch(name.Value)
              THEN <<ve(f, name.Line, "containers.name has invalid format '" \o name.Value \o "'")>>
              ELSE <<>>)
             \o (IF name.Value \in seenNames
                 THEN <<ve(f, name.Line, "containers.name has invalid format '" \o name.Value \o "'")>>
                 ELSE <<>>)

\* seenAfter without the write seenNames[name.Value] = true
seenAfter_Forget(c, seenNames) == seenNames

\* seenNames after the name check of container c
seenAfter(c, seenNames) ==
    LET name == mustGet(c, "name")
    IN  IF name # Nil /\ name.Kind = ScalarNode /\ name.Tag = "!!str"
        THEN seenNames \cup {name.Value}
        ELSE seenNames

\* the image check of one container
containerImage(f, c, idx) ==
    LET image == mustGet(c, "image")
    IN  IF image = Nil
        THEN <<ve(f, 0, "spec.containers[" \o Itoa(idx) \o "].image is required")>>
        ELSE IF image.Kind # ScalarNode \/ image.Tag # "!!str"
        THEN <<ve(f, image.Line, "containers.image must be string")>>
        ELSE IF ~validImage(image.Value)
        THEN <<ve(f, image.Line, "containers.image has invalid format '" \o image.Value \o "'")>>
        ELSE <<>>

\* the body of the loop of validateContainers for a mapping element
containerBody(f, c, idx, seenNames) ==
    LET ports == get(c, "ports")
        rp    == get(c, "readinessProbe")
        lp    == get(c, "livenessProbe")
        res   == mustGet(c, "resources")
    IN  containerName(f, c, idx, seenNames)
        \o containerImage(f, c, idx)
        \o (IF ports # Nil THEN validatePorts(f, ports) ELSE <<>>)
        \o (IF rp # Nil THEN validateProbe(f, rp, "readinessProbe") ELSE <<>>)
        \o (IF lp # Nil THEN validateProbe(f, lp, "livenessProbe") ELSE <<>>)
        \o (IF res = Nil
            THEN <<ve(f, 0, "spec.containers[" \o Itoa(idx) \o "].resources is required")>>
            ELSE validateResources(f, res))

RECURSIVE containersLoop(_, _, _, _)
\* the loop of validateContainers from 0-based index idx on
containersLoop(f, n, idx, seenNames) ==
    IF idx >= Len(n.Content) THEN <<>>
    ELSE LET c == n.Content[idx + 1]
         IN  IF c.Kind # MappingNode
             THEN <<ve(f, c.Line, "spec.containers[" \o Itoa(idx) \o "] must be object")>>
                  \o containersLoop(f, n, idx + 1, seenNames)
             ELSE containerBody(f, c, idx, seenNames)
                  \o containersLoop(f, n, idx + 1, seenAfter(c, seenNames))

\* validateContainers reporting an empty array without its line
validateContainers_EmptyNoLine(f, n) ==
    IF n.Kind # SequenceNode
    THEN <<ve(f, n.Line, "spec.containers must be array")>>
    ELSE IF Len(n.Content) = 0
    THEN <<ve(f, 0, "spec.containers is required")>>
    ELSE containersLoop(f, n, 0, {})

validateContainers(f, n) ==
    IF n.Kind # SequenceNode
    THEN <<ve(f, n.Line, "spec.containers must be array")>>
    ELSE IF Len(n.Content) = 0
    THEN <<ve(f, n.Line, "spec.containers is required")>>
    ELSE containersLoop(f, n, 0, {})

\* validatePodSpec checking containers before os
validatePodSpec_ContainersFirst(f, n) ==
    IF n.Kind # MappingNode
    THEN <<ve(f, n.Line, "spec must be object")>>
    ELSE LET osNode     == get(n, "os")
             containers == mustGet(n, "containers")
         IN  (IF containers = Nil
              THEN <<ve(f, 0, "spec.containers is required")>>
              ELSE validateContainers(f, containers))
             \o (IF osNode # Nil THEN validatePodOS(f, osNode) ELSE <<>>)

validatePodSpec(f, n) ==
    IF n.Kind # MappingNode
    THEN <<ve(f, n.Line, "spec must be object")>>
    ELSE LET osNode     == get(n, "os")
             containers == mustGet(n, "containers")
         IN  (IF osNode # Nil THEN validatePodOS(f, osNode) ELSE <<>>)
             \o (IF containers = Nil
                 THEN <<ve(f, 0, "spec.containers is required")>>
                 ELSE validateContainers(f, containers))

\* filepath.Clean on the paths of FileArgs: a leading "./" is dropped
filepathClean(path) ==
    IF HasPrefix(path, "./") /\ Len(path) > 2 THEN SubSeq(path, 3, Len(path)) ELSE path

\* rootFields giving up at the first missing field
rootFields_StopAtFirstMissing(f, doc) ==
    LET apiV == mustGet(doc, "apiVersion")
        kind == mustGet(doc, "kind")
        meta == mustGet(doc, "metadata")
        spec == mustGet(doc, "spec")
    IN  IF apiV = Nil THEN <<ve(f, 0, "apiVersion is required")>>
        ELSE validateStringEquals(f, apiV, "apiVersion", <<"v1">>)
             \o (IF kind = Nil
                 THEN <<ve(f, 0, "kind is required")>>
                 ELSE validateStringEquals(f, kind, "kind", <<"Pod">>))
             \o (IF meta = Nil
                 THEN <<ve(f, 0, "metadata is required")>>
                 ELSE validateObjectMeta(f, meta))
             \o (IF spec = Nil
                 THEN <<ve(f, 0, "spec is required")>>
                 ELSE validatePodSpec(f, spec))

\* the four top-level checks of validatePod on the mapping doc
rootFields(f, doc) ==
    LET apiV == mustGet(doc, "apiVersion")
        kind == mustGet(doc, "kind")
        meta == mustGet(doc, "metadata")
        spec == mustGet(doc, "spec")
    IN  (IF apiV = Nil
         THEN <<ve(f, 0, "apiVersion is required")>>
         ELSE validateStringEquals(f, apiV, "apiVersion", <<"v1">>))
        \o (IF kind = Nil
            THEN <<ve(f, 0, "kind is required")>>
            ELSE validateStringEquals(f, kind, "kind", <<"Pod">>))
        \o (IF meta = Nil
            THEN <<ve(f, 0, "metadata is required")>>
            ELSE validateObjectMeta(f, meta))
        \o (IF spec = Nil
            THEN <<ve(f, 0, "spec is required")>>
            ELSE validatePodSpec(f, spec))

\* validatePod going on to the field checks under a root that is no mapping
validatePod_NoStop(path, r) ==
    LET f   == filepathClean(path)
        doc == firstDocument(r)
    IN  IF doc = Nil
        THEN <<ValError(f, 0, "cannot unmarshal file content: empty document")>>
        ELSE IF doc.Kind # MappingNode
        THEN <<ve(f, doc.Line, "root must be object")>> \o rootFields(f, doc)
        ELSE rootFields(f, doc)

validatePod(path, r) ==
    LET f   == filepathClean(path)
        doc == firstDocument(r)
    IN  IF doc = Nil
        THEN <<ValError(f, 0, "cannot unmarshal file content: empty document")>>
        ELSE IF doc.Kind # MappingNode
        THEN <<ve(f, doc.Line, "root must be object")>>
        ELSE rootFields(f, doc)

----------------------------------------------------------------------------
(* Input trees.  Nodes are built without positions and then laid out the   *)
(* way the parser numbers a block-style document: a key and its scalar (or *)
(* empty) value share a line, a non-empty collection under a key starts on *)
(* the next line, a sequence entry starts on the line of its dash.         *)

Sc(tag, val) == [Kind |-> ScalarNode, Tag |-> tag, Value |-> val, Line |-> 0, Content |-> <<>>]
StrNode(val)  == Sc("!!str", val)
IntNode(val)  == Sc("!!int", val)
BoolNode(val) == Sc("!!bool", val)
Map(content)  == [Kind |-> MappingNode, Tag |-> "!!map", Value |-> "", Line |-> 0, Content |-> content]
Seqn(content) == [Kind |-> SequenceNode, Tag |-> "!!seq", Value |-> "", Line |-> 0, Content |-> content]
DocOf(n)      == [Kind |-> DocumentNode, Tag |-> "", Value |-> "", Line |-> 0, Content |-> <<n>>]

Absent == Nil

\* the pair key: v of a mapping, nothing when v is Absent
P(key, v) == IF v = Absent THEN <<>> ELSE <<StrNode(key), v>>

RECURSIVE Layout(_, _), LayoutAll(_, _, _)
Layout(n, l) ==
    IF Len(n.Content) = 0
    THEN [node |-> [n EXCEPT !.Line = l], next |-> l + 1]
    ELSE LET r == LayoutAll(n.Kind, n.Content, l)
         IN  [node |-> [n EXCEPT !.Line = l, !.Content = r.content], next |-> r.next]

LayoutAll(kind, content, l) ==
    IF Len(content) = 0 THEN [content |-> <<>>, next |-> l]
    ELSE IF kind = MappingNode
    THEN LET k    == Layout(content[1], l).node
             v    == IF Len(content[2].Content) = 0
                     THEN Layout(content[2], l)
                     ELSE Layout(content[2], l + 1)
             rest == LayoutAll(kind, SubSeq(content, 3, Len(content)), v.next)
         IN  [content |-> <<k, v.node>> \o rest.content, next |-> rest.next]
    ELSE LET e    == Layout(content[1], l)
             rest == LayoutAll(kind, SubSeq(content, 2, Len(content)), e.next)
         IN  [content |-> <<e.node>> \o rest.content, next |-> rest.next]

\* a node as the parser hands it over, its first line being line 1
Parsed(n) == Layout(n, 1).node

GoodImage == "registry.bigbrother.io/app:v1"

GoodMeta == Map(P("name", StrNode("x")))

GoodContainer(name) ==
    Map(P("name", StrNode(name)) \o P("image", StrNode(GoodImage)) \o P("resources", Map(<<>>)))

GoodSpec == Map(P("containers", Seqn(<<GoodContainer("web")>>)))

\* the top-level mapping with its four fields in the order given by perm
RootMap(perm, a, k, m, s) ==
    LET pairs == <<P("apiVersion", a), P("kind", k), P("metadata", m), P("spec", s)>>
    IN  Map(pairs[perm[1]] \o pairs[perm[2]] \o pairs[perm[3]] \o pairs[perm[4]])

Declared == <<1, 2, 3, 4>>

KeyOrders == {Declared, <<4, 3, 1, 2>>}

ApiOpts == {Absent, StrNode("v1"), StrNode("v2"), IntNode("1")}

KindOpts == {Absent, StrNode("Pod"), StrNode("Deployment")}

MetaOpts ==
    { Absent, GoodMeta,
      Seqn(<<Map(P("name", IntNode("5")))>>),
      Map(P("namespace", StrNode("ns"))),
      Map(P("labels", Seqn(<<StrNode("a")>>)) \o P("namespace", IntNode("7")) \o P("name", IntNode("5"))),
      Map(P("name", StrNode("x")) \o P("labels", Map(<<IntNode("1"), StrNode("a"), StrNode("b"), IntNode("2")>>))) }

SpecOpts ==
    { Absent, GoodSpec,
      StrNode("x"),
      Map(P("os", StrNode("solaris"))),
      Map(P("containers", Map(<<>>)) \o P("os", Seqn(<<StrNode("linux")>>))),
      Map(P("os", StrNode("linux")) \o P("containers", Seqn(<<>>))),
      Map(P("containers", Seqn(<<StrNode("c"), Map(P("name", StrNode("c1")))>>)) \o P("os", Map(<<>>))) }

\* documents whose top-level node is a mapping
RootInputs ==
    { Parsed(DocOf(RootMap(perm, a, k, m, s))) :
        perm \in KeyOrders, a \in ApiOpts, k \in KindOpts, m \in MetaOpts, s \in SpecOpts }

GoodRoot == RootMap(Declared, StrNode("v1"), StrNode("Pod"), GoodMeta, GoodSpec)

\* documents whose top-level node is no mapping, the empty document, and
\* nodes handed over without a document marker around them
ShapeInputs ==
    { Parsed(DocOf(StrNode("kind"))),
      Parsed(DocOf(Sc("!!null", "~"))),
      Parsed(DocOf(Seqn(<<>>))),
      Parsed(DocOf(Seqn(<<GoodRoot>>))),
      ZeroNode,
      Nil,
      [Kind |-> DocumentNode, Tag |-> "", Value |-> "", Line |-> 1, Content |-> <<>>],
      Parsed(GoodRoot),
      Parsed(Map(<<>>)),
      Parsed(Seqn(<<GoodRoot>>)),
      Parsed(StrNode("x")) }

MaxContainers == 3

NameOpts == {StrNode("web"), StrNode("c1"), StrNode("true"), BoolNode("true")}

ContainerWith(nameNode) ==
    Map(P("name", nameNode) \o P("image", StrNode(GoodImage)) \o P("resources", Map(<<>>)))

\* the elements of a containers array: mappings with one of the names, and
\* a scalar where a mapping belongs
ElementOpts == {ContainerWith(nm) : nm \in NameOpts} \cup {StrNode("web")}

ManifestWith(spec) == Parsed(DocOf(RootMap(Declared, StrNode("v1"), StrNode("Pod"), GoodMeta, spec)))

\* manifests that differ in their containers array
ContainerInputs ==
    { ManifestWith(Map(P("containers", Seqn(cs)))) :
        cs \in UNION {[1..n -> ElementOpts] : n \in 1..MaxContainers} }

\* the strings over alphabet of length at most n
RECURSIVE StringsUpTo(_, _)
StringsUpTo(alphabet, n) ==
    IF n = 0 THEN {""}
    ELSE LET shorter == StringsUpTo(alphabet, n - 1)
         IN  shorter \cup {t \o c : t \in shorter, c \in alphabet}

MaxDelta == 2

\* integers around both ends of the port range, and one inside it
PortInts == {d : d \in (0 - MaxDelta)..MaxDelta}
            \cup {PortLimit + d : d \in (0 - MaxDelta)..MaxDelta} \cup {8080}

\* what stands under containerPort or port: integers in decimal and in the
\* other notations the parser tags !!int, and nodes that are no integers
PortOpts ==
    {IntNode(Itoa(v)) : v \in PortInts}
    \cup { IntNode("0x50"), IntNode("1_000"), IntNode("+80"),
           StrNode("80"), StrNode("http"), StrNode(" 80 "), Sc("!!float", "80.5"),
           Absent, Map(<<>>) }

ProbePortOpts ==
    {IntNode(Itoa(v)) : v \in {0, 1, PortLimit - 1, PortLimit}}
    \cup {IntNode("0x50"), StrNode("80"), StrNode("http"), Absent}

\* manifests that differ in the containerPort of a port entry and in the
\* port of a readiness probe
PortInputs ==
    { ManifestWith(Map(P("containers", Seqn(<<
          Map(P("name", StrNode("web")) \o P("image", StrNode(GoodImage))
              \o P("ports", Seqn(<<Map(P("containerPort", cp) \o P("protocol", StrNode("TCP")))>>))
              \o P("readinessProbe", Map(P("httpGet", Map(P("path", StrNode("/")) \o P("port", pp)))))
              \o P("resources", Map(<<>>)))>>)))) :
        cp \in PortOpts, pp \in ProbePortOpts }

MaxPad == 1

Pads == StringsUpTo({" ", "\n"}, MaxPad)

OsNames ==
    {pre \o nm \o post : nm \in {"linux", "windows", "solaris", "Linux"}, pre \in Pads, post \in Pads}
    \cup {"", "linuxwindows", "lin ux"}

OsOpts ==
    {StrNode(nm) : nm \in OsNames}
    \cup {Map(P("name", StrNode(nm))) : nm \in OsNames}
    \cup {IntNode("1"), Seqn(<<StrNode("linux")>>), Map(<<>>), Map(P("name", IntNode("1")))}

\* manifests that differ in spec.os
OsInputs ==
    { ManifestWith(Map(P("os", o) \o P("containers", Seqn(<<GoodContainer("web")>>)))) : o \in OsOpts }

MaxTail == 4

ImageTexts ==
    {RegistryPrefix \o t : t \in StringsUpTo({"a", ":", "/"}, MaxTail)}
    \cup {"badimage", "a:b", "docker.io/app:v1", "", "registry.bigbrother.io", GoodImage}

ImageOpts == {StrNode(t) : t \in ImageTexts} \cup {IntNode("5"), Map(<<>>), Absent}

\* manifests that differ in the image of their container
ImageInputs ==
    { ManifestWith(Map(P("containers", Seqn(<<
          Map(P("name", StrNode("web")) \o P("image", img) \o P("resources", Map(<<>>)))>>)))) :
        img \in ImageOpts }

ValidMetas ==
    { Map(P("name", StrNode("x")) \o P("namespace", ns) \o P("labels", lb)) :
        ns \in {Absent, StrNode("prod")},
        lb \in {Absent, Map(<<>>), Map(P("app", StrNode("web")) \o P("tier", StrNode("1")))} }

ValidOs == {Absent, StrNode("linux"), StrNode("windows"), Map(P("name", StrNode("windows")))}

ValidPortTexts == {"1", "8080", "65535", "0x50"}

ValidPorts ==
    { Absent, Seqn(<<>>) }
    \cup { Seqn(<<Map(P("containerPort", IntNode(t)))>>) : t \in ValidPortTexts }
    \cup { Seqn(<<Map(P("containerPort", IntNode("80")) \o P("protocol", StrNode("TCP"))),
                  Map(P("protocol", StrNode("UDP")) \o P("containerPort", IntNode("53")))>>) }

ValidProbes ==
    { Absent,
      Map(P("httpGet", Map(P("path", StrNode("/")) \o P("port", IntNode("8080"))))),
      Map(P("httpGet", Map(P("port", IntNode("1")) \o P("path", StrNode("/healthz"))))) }

ValidResources ==
    { Map(<<>>),
      Map(P("requests", Map(P("cpu", StrNode("2")) \o P("memory", StrNode("128Mi"))))),
      Map(P("limits", Map(P("memory", StrNode("1Gi")))) \o P("requests", Map(<<>>))) }

ValidNames == {"web", "web_1", "a_b9_c"}

ValidImages == {GoodImage, "registry.bigbrother.io/team/app:1.0", "registry.bigbrother.io/a:b"}

ValidContainers ==
    { Map(P("name", StrNode("web")) \o P("image", StrNode(GoodImage)) \o P("ports", po)
          \o P("readinessProbe", rp) \o P("livenessProbe", lp) \o P("resources", Map(<<>>))) :
        po \in ValidPorts, rp \in ValidProbes,
        lp \in {Absent, Map(P("httpGet", Map(P("path", StrNode("/")) \o P("port", IntNode("65535")))))} }
    \cup { Map(P("resources", res) \o P("image", StrNode(img)) \o P("name", StrNode(nm))) :
             nm \in ValidNames, img \in ValidImages, res \in ValidResources }

\* manifests that follow the schema
ValidInputs ==
    { Parsed(DocOf(RootMap(perm, StrNode("v1"), StrNode("Pod"), m,
                           Map(P("os", o) \o P("containers", Seqn(<<GoodContainer("web")>>)))))) :
        perm \in KeyOrders, m \in ValidMetas, o \in ValidOs }
    \cup { ManifestWith(Map(P("containers", Seqn(<<c>>)))) : c \in ValidContainers }
    \cup { ManifestWith(Map(P("containers", Seqn(<<GoodContainer(ab[1]), GoodContainer(ab[2])>>)))) :
             ab \in {ab \in ValidNames \X ValidNames : ab[1] # ab[2]} }

\* nodes of the wrong kind where a mapping, or an array, belongs; the
\* collections among them hold fields that would be reported if read
WrongForMap ==
    { StrNode("x"),
      Seqn(<<Map(P("name", IntNode("5")) \o P("path", IntNode("1")) \o P("cpu", StrNode("x")))>>) }

WrongForSeq ==
    { StrNode("x"),
      Map(P("name", IntNode("5")) \o P("containerPort", IntNode("0")) \o P("image", IntNode("1"))) }

GoodEntry == Map(P("containerPort", IntNode("80")))

GoodHttpGet == Map(P("path", StrNode("/")) \o P("port", IntNode("8080")))

GoodLimits == Map(P("memory", StrNode("1Gi")))

PortsOpts ==
    {Seqn(<<GoodEntry>>)} \cup WrongForSeq \cup {Seqn(<<w, Map(<<>>)>>) : w \in WrongForMap}

ProbeOpts ==
    {Map(P("httpGet", GoodHttpGet)), Map(<<>>)} \cup WrongForMap
    \cup {Map(P("httpGet", w)) : w \in WrongForMap}

ResourcesOpts ==
    {Map(P("limits", GoodLimits))} \cup WrongForMap
    \cup {Map(P("requests", w) \o P("limits", GoodLimits)) : w \in WrongForMap}
    \cup {Map(P("limits", StrNode("x")))}

\* manifests in which composite fields hold nodes of the wrong kind
CompositeInputs ==
    { ManifestWith(Map(P("containers", Seqn(<<
          Map(P("name", StrNode("web")) \o P("image", StrNode(GoodImage)) \o P("ports", po)
              \o P("readinessProbe", rp) \o P("livenessProbe", lp) \o P("resources", res))>>)))) :
        po \in PortsOpts, rp \in ProbeOpts, lp \in {Absent, Map(P("httpGet", Map(<<>>)))},
        res \in ResourcesOpts }
    \cup { ManifestWith(Map(P("containers", w))) : w \in WrongForSeq }
    \cup { ManifestWith(Map(P("containers", Seqn(<<w, GoodContainer("web"), Map(<<>>)>>)))) : w \in WrongForMap }
    \cup { Parsed(DocOf(RootMap(Declared, StrNode("v2"), StrNode("Pod"), m, sp))) :
             m \in WrongForMap \cup {GoodMeta}, sp \in WrongForMap }

Inputs ==
    RootInputs \cup ShapeInputs \cup ContainerInputs \cup PortInputs \cup OsInputs
    \cup ImageInputs \cup ValidInputs \cup CompositeInputs

FileArgs == {"pod.yaml", "./pod.yaml"}

----------------------------------------------------------------------------
(* The program: main parses the file into root, validates it, reports.     *)

MaxRuns == 2

Init ==
    /\ file \in FileArgs
    /\ root \in Inputs
    /\ file = "pod.yaml" \/ root \in ShapeInputs
    /\ errs = <<>>
    /\ prev = <<>>
    /\ runs = 0
    /\ out = <<>>
    /\ exit = <<>>

\* validatePod appending to the errors of the run before, as it would with
\* errs declared outside the function
Validate_Accumulate ==
    /\ exit = <<>>
    /\ runs < MaxRuns
    /\ errs' = errs \o validatePod(file, root)
    /\ prev' = errs
    /\ runs' = runs + 1
    /\ UNCHANGED <<file, root, out, exit>>

\* errs := validatePod(path, &root)
Validate ==
    /\ exit = <<>>
    /\ runs < MaxRuns
    /\ errs' = validatePod(file, root)
    /\ prev' = errs
    /\ runs' = runs + 1
    /\ UNCHANGED <<file, root, out, exit>>

\* one line of the report of main
reportLine(e) ==
    IF e.Line > 0 THEN e.File \o ":" \o Itoa(e.Line) \o " " \o e.Msg ELSE e.Msg

\* main after validatePod: print every error, exit 1, or exit 0 without errors
Report ==
    /\ exit = <<>>
    /\ runs >= 1
    /\ out' = [i \in 1..Len(errs) |-> reportLine(errs[i])]
    /\ exit' = IF Len(errs) > 0 THEN <<1>> ELSE <<0>>
    /\ UNCHANGED <<file, root, errs, prev, runs>>

Next == Validate \/ Report

Spec == Init /\ [][Next]_vars

----------------------------------------------------------------------------
(* Vocabulary of the properties.                                           *)

Validated == runs >= 1

Msgs == {errs[i].Msg : i \in DOMAIN errs}

Count(msg) == Cardinality({i \in DOMAIN errs : errs[i].Msg = msg})

EmptyDocumentMsg == "cannot unmarshal file content: empty document"

\* root is what the parser produces: a document marker, or the zero node of
\* an empty input
IsDocument == root # Nil /\ root.Kind \in {DocumentNode, ZeroKind}

\* the top-level node of the document, Nil for an empty document
TopNode == IF IsDocument /\ Len(root.Content) > 0 THEN root.Content[1] ELSE Nil

\* n is a mapping holding a pair whose key is the scalar key
KeyIn(n, key) ==
    /\ n.Kind = MappingNode
    /\ \E i \in 1..Len(n.Content) :
          i % 2 = 1 /\ n.Content[i].Kind = ScalarNode /\ n.Content[i].Value = key

\* the value under key in n (the first one), for KeyIn(n, key)
ValueOf(n, key) ==
    n.Content[1 + (CHOOSE i \in 1..Len(n.Content) :
                      /\ i % 2 = 1 /\ n.Content[i].Kind = ScalarNode /\ n.Content[i].Value = key
                      /\ \A j \in 1..(i - 1) :
                            ~(j % 2 = 1 /\ n.Content[j].Kind = ScalarNode /\ n.Content[j].Value = key))]

----------------------------------------------------------------------------
(* C1 as stated: whenever the top-level node has no kind key, whatever its *)
(* shape, exactly one error reads "kind is required".                      *)
C1_AnyRootShape ==
    (Validated /\ TopNode # Nil /\ ~KeyIn(TopNode, "kind")) => Count("kind is required") = 1

(* C1 amended: whenever the top-level node is a mapping with no kind key,  *)
(* exactly one error reads "kind is required", whatever else is wrong.     *)
C1_KindRequiredOnce ==
    (Validated /\ TopNode.Kind = MappingNode /\ ~KeyIn(TopNode, "kind"))
        => Count("kind is required") = 1

C1_Witness ==
    /\ Validated /\ TopNode.Kind = MappingNode
    /\ ~KeyIn(TopNode, "kind") /\ ~KeyIn(TopNode, "apiVersion") /\ ~KeyIn(TopNode, "spec")
    /\ KeyIn(TopNode, "metadata") /\ ValueOf(TopNode, "metadata").Kind = SequenceNode
    /\ Count("kind is required") = 1 /\ Len(errs) = 4

----------------------------------------------------------------------------
\* the place of a message in the order apiVersion, kind, metadata (name,
\* namespace, labels), spec (os, containers and everything below them)
Rank(msg) ==
    IF HasPrefix(msg, "apiVersion ") THEN 1
    ELSE IF HasPrefix(msg, "kind ") THEN 2
    ELSE IF HasPrefix(msg, "metadata ") \/ HasPrefix(msg, "metadata.name ") THEN 3
    ELSE IF HasPrefix(msg, "metadata.namespace ") THEN 4
    ELSE IF HasPrefix(msg, "metadata.labels ") THEN 5
    ELSE IF HasPrefix(msg, "spec ") \/ HasPrefix(msg, "os ") \/ HasPrefix(msg, "os.name ") THEN 6
    ELSE 7

(* C3: under a mapping root the errors come in the order apiVersion, kind, *)
(* metadata (name, namespace, labels), spec (os, then containers), however *)
(* the keys are ordered in the document and whatever the errors' lines.    *)
C3_FieldOrder ==
    (Validated /\ TopNode.Kind = MappingNode)
        => \A i, j \in DOMAIN errs : i < j => Rank(errs[i].Msg) <= Rank(errs[j].Msg)

C3_Witness ==
    /\ Validated /\ TopNode.Kind = MappingNode
    /\ Len(TopNode.Content) > 0 /\ TopNode.Content[1].Value = "spec"
    /\ {Rank(m) : m \in Msgs} = 1..7
    /\ \E i, j \in DOMAIN errs : i < j /\ errs[i].Line > errs[j].Line /\ errs[j].Line > 0

----------------------------------------------------------------------------
(* C6: an empty document yields the single error "cannot unmarshal file    *)
(* content: empty document", a top-level node that is no mapping yields    *)
(* the single error "root must be object", and under a mapping root        *)
(* neither message appears.                                                *)
C6_ShortCircuit ==
    (Validated /\ IsDocument) =>
        /\ TopNode = Nil => (Len(errs) = 1 /\ errs[1].Msg = EmptyDocumentMsg)
        /\ (TopNode # Nil /\ TopNode.Kind # MappingNode)
              => (Len(errs) = 1 /\ errs[1].Msg = "root must be object")
        /\ TopNode.Kind = MappingNode
              => (EmptyDocumentMsg \notin Msgs /\ "root must be object" \notin Msgs)

C6_Witness ==
    /\ Validated /\ IsDocument /\ TopNode.Kind = SequenceNode /\ Len(TopNode.Content) > 0
    /\ Len(errs) = 1 /\ errs[1].Msg = "root must be object"

----------------------------------------------------------------------------
\* root as the parser would hand it over, inside a document marker
Wrapped == [Kind |-> DocumentNode, Tag |-> "", Value |-> "", Line |-> root.Line, Content |-> <<root>>]

----------------------------------------------------------------------------
\* the elements of spec.containers, <<>> when there is no such array
Containers ==
    IF KeyIn(TopNode, "spec") /\ KeyIn(ValueOf(TopNode, "spec"), "containers")
       /\ ValueOf(ValueOf(TopNode, "spec"), "containers").Kind = SequenceNode
    THEN ValueOf(ValueOf(TopNode, "spec"), "containers").Content
    ELSE <<>>

\* container i is a mapping whose name is a string
HasStringName(i) ==
    /\ Containers[i].Kind = MappingNode
    /\ KeyIn(Containers[i], "name")
    /\ ValueOf(Containers[i], "name").Kind = ScalarNode
    /\ ValueOf(Containers[i], "name").Tag = "!!str"

NameOf(i) == ValueOf(Containers[i], "name")

\* names of the input manifests that match the name grammar
WellFormedNames == {"web", "db", "true", "web_1", "a_b9_c"}

\* the "invalid format" errors reported at the name of container i
NameFormatErrors(i) ==
    {k \in DOMAIN errs :
        /\ errs[k].Line = NameOf(i).Line
        /\ errs[k].Msg = "containers.name has invalid format '" \o NameOf(i).Value \o "'"}

(* C4: a container with a well-formed string name gets exactly one         *)
(* "containers.name has invalid format" error when an earlier container of *)
(* the array has the same string name, and none otherwise: of two          *)
(* containers named alike the second is reported and the first is not.     *)
C4_DuplicateName ==
    Validated =>
        \A i \in DOMAIN Containers :
            (HasStringName(i) /\ NameOf(i).Value \in WellFormedNames) =>
                Cardinality(NameFormatErrors(i)) =
                    IF \E j \in 1..(i - 1) : HasStringName(j) /\ NameOf(j).Value = NameOf(i).Value
                    THEN 1 ELSE 0

C4_Witness ==
    /\ Validated /\ Len(Containers) = 3
    /\ \A i \in 1..3 : HasStringName(i)
    /\ NameOf(1).Value = "web" /\ NameOf(2).Value = "true" /\ NameOf(3).Value = "web"
    /\ Len(errs) = 1 /\ errs[1].Line = NameOf(3).Line
    /\ errs[1].Msg = "containers.name has invalid format 'web'"

----------------------------------------------------------------------------
\* the value under key in n, Nil when n is no mapping holding that key
InMap(n, key) == IF KeyIn(n, key) THEN ValueOf(n, key) ELSE Nil

InContainer(i, key) == InMap(Containers[i], key)

\* the nodes under containerPort in the entries of the ports arrays, with
\* the field name validatePortInt is given for them
ContainerPortNodes ==
    {[node |-> ValueOf(InContainer(i, "ports").Content[j], "containerPort"), field |-> "containerPort"] :
        <<i, j>> \in {<<i, j>> \in (DOMAIN Containers) \X (1..4) :
                         /\ InContainer(i, "ports").Kind = SequenceNode
                         /\ j <= Len(InContainer(i, "ports").Content)
                         /\ KeyIn(InContainer(i, "ports").Content[j], "containerPort")}}

\* the nodes under port in the httpGet of the probes
ProbePortNodes ==
    {[node |-> ValueOf(ValueOf(InContainer(ip[1], ip[2]), "httpGet"), "port"), field |-> "port"] :
        ip \in {ip \in (DOMAIN Containers) \X {"readinessProbe", "livenessProbe"} :
                         /\ KeyIn(InContainer(ip[1], ip[2]), "httpGet")
                         /\ KeyIn(ValueOf(InContainer(ip[1], ip[2]), "httpGet"), "port")}}

PortNodes == ContainerPortNodes \cup ProbePortNodes

HexChars == "0123456789abcdef"

RECURSIVE HexValue(_)
HexValue(t) ==
    IF Len(t) = 0 THEN 0
    ELSE 16 * HexValue(SubSeq(t, 1, Len(t) - 1))
         + (CHOOSE d \in 0..15 : SubSeq(HexChars, d + 1, d + 1) = SubSeq(t, Len(t), Len(t)))

RECURSIVE WithoutUnderscores(_)
WithoutUnderscores(t) ==
    IF Len(t) = 0 THEN ""
    ELSE (IF SubSeq(t, 1, 1) = "_" THEN "" ELSE SubSeq(t, 1, 1))
         \o WithoutUnderscores(SubSeq(t, 2, Len(t)))

\* the integer a scalar tagged !!int stands for: decimal with an optional
\* sign, 0x hexadecimal, underscores between digits ignored
IntOf(t) ==
    LET plain == WithoutUnderscores(t)
    IN  IF HasPrefix(plain, "0x") THEN HexValue(SubSeq(plain, 3, Len(plain)))
        ELSE IF HasPrefix(plain, "-") THEN 0 - DecimalValue(SubSeq(plain, 2, Len(plain)))
        ELSE IF HasPrefix(plain, "+") THEN DecimalValue(SubSeq(plain, 2, Len(plain)))
        ELSE DecimalValue(plain)

ErrorsAt(line) == {k \in DOMAIN errs : errs[k].Line = line}

(* C5: a port given as an integer v is reported "<field> value out of      *)
(* range" exactly when v <= 0 or v >= 65536 and gets no error exactly when *)
(* 0 < v < 65536.                                                          *)
C5_PortRange ==
    Validated =>
        \A p \in PortNodes :
            (p.node.Kind = ScalarNode /\ p.node.Tag = "!!int") =>
                LET v == IntOf(p.node.Value)
                IN  /\ (\E k \in ErrorsAt(p.node.Line) : errs[k].Msg = p.field \o " value out of range")
                          <=> (v <= 0 \/ v >= 65536)
                    /\ (ErrorsAt(p.node.Line) = {}) <=> (0 < v /\ v < 65536)


\* C5 restricted to integers written in decimal, with or without a sign
PortRangeDecimal ==
    Validated =>
        \A p \in PortNodes :
            (p.node.Kind = ScalarNode /\ p.node.Tag = "!!int"
             /\ p.node.Value \in {Itoa(v) : v \in PortInts} \cup {"+80"}) =>
                LET v == IntOf(p.node.Value)
                IN  /\ (\E k \in ErrorsAt(p.node.Line) : errs[k].Msg = p.field \o " value out of range")
                          <=> (v <= 0 \/ v >= 65536)
                    /\ (ErrorsAt(p.node.Line) = {}) <=> (0 < v /\ v < 65536)

----------------------------------------------------------------------------
\* spec.os, Nil when absent
OsNode ==
    IF KeyIn(TopNode, "spec") /\ KeyIn(ValueOf(TopNode, "spec"), "os")
    THEN ValueOf(ValueOf(TopNode, "spec"), "os") ELSE Nil

\* os is given in one of its two accepted forms
OsAccepted ==
    \/ OsNode.Kind = ScalarNode /\ OsNode.Tag = "!!str"
    \/ /\ KeyIn(OsNode, "name")
       /\ ValueOf(OsNode, "name").Kind = ScalarNode /\ ValueOf(OsNode, "name").Tag = "!!str"

\* the node holding the name, and the field it is reported under
OsNameNode == IF OsNode.Kind = ScalarNode THEN OsNode ELSE ValueOf(OsNode, "name")

OsField == IF OsNode.Kind = ScalarNode THEN "os" ELSE "os.name"

OsErrors == {k \in DOMAIN errs : HasPrefix(errs[k].Msg, "os ") \/ HasPrefix(errs[k].Msg, "os.name ")}

\* exactly one error about os, the unsupported-value error for its name
OneUnsupportedOs ==
    /\ Cardinality(OsErrors) = 1
    /\ \A k \in OsErrors :
          /\ errs[k].Msg = OsField \o " has unsupported value '" \o OsNameNode.Value \o "'"
          /\ errs[k].Line = OsNameNode.Line

(* C8 as stated: os in an accepted form gets no error if and only if its   *)
(* name is exactly "linux" or exactly "windows", and one unsupported-value *)
(* error for every other name.                                             *)
C8_ExactName ==
    (Validated /\ OsAccepted) =>
        IF OsNameNode.Value \in {"linux", "windows"} THEN OsErrors = {} ELSE OneUnsupportedOs

\* name is "linux" or "windows" with nothing but white space around it
PaddedOsName(name) ==
    \E nm \in {"linux", "windows"} :
        \E a \in 0..Len(name), b \in 0..Len(name) :
            /\ a + Len(nm) + b = Len(name)
            /\ SubSeq(name, a + 1, a + Len(nm)) = nm
            /\ \A i \in (1..a) \cup ((a + Len(nm) + 1)..Len(name)) : SubSeq(name, i, i) \in Space

(* C8 amended: os in an accepted form gets no error if and only if its     *)
(* name, leading and trailing white space set aside, is "linux" or         *)
(* "windows"; every other name gets one unsupported-value error quoting    *)
(* the name as written.                                                    *)
C8_TrimmedName ==
    (Validated /\ OsAccepted) =>
        IF PaddedOsName(OsNameNode.Value) THEN OsErrors = {} ELSE OneUnsupportedOs

C8_Witness ==
    /\ Validated /\ OsAccepted /\ OsNode.Kind = MappingNode
    /\ OsNameNode.Value = " solaris" /\ OneUnsupportedOs
    /\ errs[1].Msg = "os.name has unsupported value ' solaris'"

----------------------------------------------------------------------------
\* the image nodes of the containers that are strings
ImageNodes ==
    {InContainer(i, "image") : i \in {i \in DOMAIN Containers :
        InContainer(i, "image").Kind = ScalarNode /\ InContainer(i, "image").Tag = "!!str"}}

ImageErrors(n) ==
    {k \in DOMAIN errs : errs[k].Line = n.Line /\ HasPrefix(errs[k].Msg, "containers.image ")}

\* exactly one error about image n, quoting it
OneImageError(n) ==
    /\ Cardinality(ImageErrors(n)) = 1
    /\ \A k \in ImageErrors(n) :
          errs[k].Msg = "containers.image has invalid format '" \o n.Value \o "'"

\* s holds a colon after its last slash and before its last character
SomeColonAfterSlash(s) ==
    \E i \in 0..(Len(s) - 2) :
        CharAt(s, i) = ":" /\ \A j \in (i + 1)..(Len(s) - 1) : CharAt(s, j) # "/"

(* C9 as stated: an image string gets no image error when it starts with   *)
(* registry.bigbrother.io/ and holds a colon after its last slash and      *)
(* before its last character, and exactly one invalid-format error         *)
(* otherwise.                                                              *)
C9_SomeColon ==
    Validated =>
        \A n \in ImageNodes :
            IF HasPrefix(n.Value, "registry.bigbrother.io/") /\ SomeColonAfterSlash(n.Value)
            THEN ImageErrors(n) = {} ELSE OneImageError(n)

\* the last colon of s comes after its last slash and before its last character
LastColonAfterSlash(s) ==
    \E i \in 0..(Len(s) - 2) :
        CharAt(s, i) = ":" /\ \A j \in (i + 1)..(Len(s) - 1) : CharAt(s, j) \notin {"/", ":"}

(* C9 amended: an image string gets no image error when it starts with     *)
(* registry.bigbrother.io/ and its last colon lies after its last slash    *)
(* and before its last character, and exactly one invalid-format error     *)
(* otherwise.                                                              *)
C9_LastColon ==
    Validated =>
        \A n \in ImageNodes :
            IF HasPrefix(n.Value, "registry.bigbrother.io/") /\ LastColonAfterSlash(n.Value)
            THEN ImageErrors(n) = {} ELSE OneImageError(n)

C9_Witness ==
    /\ Validated
    /\ \E n \in ImageNodes : n.Value = "badimage" /\ OneImageError(n) /\ Len(errs) = 1

----------------------------------------------------------------------------
(* The schema of the manifest, read off the tree alone.                    *)

IsString(n) == n.Kind = ScalarNode /\ n.Tag = "!!str"

Required(n, key, Ok(_)) == KeyIn(n, key) /\ Ok(ValueOf(n, key))

Optional(n, key, Ok(_)) == KeyIn(n, key) => Ok(ValueOf(n, key))

\* lowercase words joined by single underscores, digits allowed after the first word
SnakeName(t) ==
    /\ Len(t) > 0
    /\ \A i \in 1..Len(t) : SubSeq(t, i, i) \in Lower \cup Digits \cup {"_"}
    /\ SubSeq(t, 1, 1) \in Lower
    /\ SubSeq(t, Len(t), Len(t)) # "_"
    /\ \A i \in 1..(Len(t) - 1) : ~(SubSeq(t, i, i) = "_" /\ SubSeq(t, i + 1, i + 1) = "_")
    /\ \A i \in 1..Len(t) :
          SubSeq(t, i, i) \in Digits => \E j \in 1..(i - 1) : SubSeq(t, j, j) = "_"

TaggedImage(t) == HasPrefix(t, "registry.bigbrother.io/") /\ LastColonAfterSlash(t)

PortInt(n) ==
    /\ n.Kind = ScalarNode /\ n.Tag = "!!int"
    /\ 0 < IntOf(n.Value) /\ IntOf(n.Value) < 65536

AllDigits(t) == Len(t) > 0 /\ \A i \in 1..Len(t) : SubSeq(t, i, i) \in Digits

MemoryQuantity(t) ==
    \E u \in {"Ki", "Mi", "Gi"} : HasSuffix(t, u) /\ AllDigits(SubSeq(t, 1, Len(t) - 2))

LabelsOk(n) == n.Kind = MappingNode /\ \A i \in 1..Len(n.Content) : IsString(n.Content[i])

MetaOk(n) ==
    /\ n.Kind = MappingNode
    /\ Required(n, "name", IsString)
    /\ Optional(n, "namespace", IsString)
    /\ Optional(n, "labels", LabelsOk)

OsNameOk(n) == IsString(n) /\ n.Value \in {"linux", "windows"}

OsOk(n) == OsNameOk(n) \/ (n.Kind = MappingNode /\ Required(n, "name", OsNameOk))

ProtocolOk(n) == IsString(n) /\ n.Value \in {"TCP", "UDP"}

PortEntryOk(n) ==
    n.Kind = MappingNode /\ Required(n, "containerPort", PortInt) /\ Optional(n, "protocol", ProtocolOk)

PortsOk(n) == n.Kind = SequenceNode /\ \A i \in 1..Len(n.Content) : PortEntryOk(n.Content[i])

PathOk(n) == IsString(n) /\ HasPrefix(n.Value, "/")

HttpGetOk(n) == n.Kind = MappingNode /\ Required(n, "path", PathOk) /\ Required(n, "port", PortInt)

ProbeOk(n) == n.Kind = MappingNode /\ Required(n, "httpGet", HttpGetOk)

CpuOk(n) == IsString(n) /\ AllDigits(n.Value)

MemoryOk(n) == IsString(n) /\ MemoryQuantity(n.Value)

ResourceMapOk(n) == n.Kind = MappingNode /\ Optional(n, "cpu", CpuOk) /\ Optional(n, "memory", MemoryOk)

ResourcesOk(n) ==
    n.Kind = MappingNode /\ Optional(n, "requests", ResourceMapOk) /\ Optional(n, "limits", ResourceMapOk)

ContainerNameOk(n) == IsString(n) /\ SnakeName(n.Value)

ImageOk(n) == IsString(n) /\ TaggedImage(n.Value)

ContainerOk(n) ==
    /\ n.Kind = MappingNode
    /\ Required(n, "name", ContainerNameOk)
    /\ Required(n, "image", ImageOk)
    /\ Optional(n, "ports", PortsOk)
    /\ Optional(n, "readinessProbe", ProbeOk)
    /\ Optional(n, "livenessProbe", ProbeOk)
    /\ Required(n, "resources", ResourcesOk)

ContainersOk(n) ==
    /\ n.Kind = SequenceNode /\ Len(n.Content) > 0
    /\ \A i \in 1..Len(n.Content) : ContainerOk(n.Content[i])
    /\ \A i, j \in 1..Len(n.Content) :
          i # j => ValueOf(n.Content[i], "name").Value # ValueOf(n.Content[j], "name").Value

SpecOk(n) == n.Kind = MappingNode /\ Optional(n, "os", OsOk) /\ Required(n, "containers", ContainersOk)

ApiVersionOk(n) == IsString(n) /\ n.Value = "v1"

KindOk(n) == IsString(n) /\ n.Value = "Pod"

\* the document follows the schema
Conforms ==
    /\ TopNode.Kind = MappingNode
    /\ Required(TopNode, "apiVersion", ApiVersionOk)
    /\ Required(TopNode, "kind", KindOk)
    /\ Required(TopNode, "metadata", MetaOk)
    /\ Required(TopNode, "spec", SpecOk)

(* C2: a manifest that follows the schema yields the empty error sequence. *)
C2_ValidIsClean == (Validated /\ Conforms) => errs = <<>>

\* the ports of the document's containers, when written in decimal
DecimalPorts ==
    \A p \in PortNodes : p.node.Tag = "!!int" => \A i \in 1..Len(p.node.Value) :
        SubSeq(p.node.Value, i, i) \in Digits \cup {"+", "-"}

\* C2 for the manifests whose ports are written in decimal
ValidDecimalIsClean == (Validated /\ Conforms /\ DecimalPorts) => errs = <<>>

\* and the other way round: a clean run means the manifest follows the
\* schema, but for what validatePortInt and validateResourceMap let through
CleanIsValid ==
    (Validated /\ IsDocument /\ errs = <<>> /\ root \notin PortInputs /\ root \notin OsInputs) => Conforms

----------------------------------------------------------------------------
(* The composite fields of the document a validator is handed: each with   *)
(* the kind it must have and the error reported when it has another.       *)

Site(n, want, msg) == [node |-> n, want |-> want, msg |-> msg]

\* the field key of n when n is a mapping holding it
SitesIn(n, key, want, msg) ==
    IF KeyIn(n, key) THEN {Site(ValueOf(n, key), want, msg)} ELSE {}

Probes == {"readinessProbe", "livenessProbe"}

ContainerSites(c) ==
    SitesIn(c, "ports", SequenceNode, "ports must be array")
    \cup (IF InMap(c, "ports").Kind = SequenceNode
          THEN {Site(InMap(c, "ports").Content[j], MappingNode, "ports must be object") :
                   j \in DOMAIN InMap(c, "ports").Content}
          ELSE {})
    \cup UNION {SitesIn(c, pr, MappingNode, pr \o " must be object") : pr \in Probes}
    \cup UNION {SitesIn(InMap(c, pr), "httpGet", MappingNode, pr \o ".httpGet must be object") : pr \in Probes}
    \cup SitesIn(c, "resources", MappingNode, "resources must be object")
    \cup UNION {SitesIn(InMap(c, "resources"), rk, MappingNode, "resources." \o rk \o " must be object") :
                   rk \in {"requests", "limits"}}

Sites ==
    SitesIn(TopNode, "metadata", MappingNode, "metadata must be object")
    \cup SitesIn(TopNode, "spec", MappingNode, "spec must be object")
    \cup SitesIn(InMap(TopNode, "spec"), "containers", SequenceNode, "spec.containers must be array")
    \cup {Site(Containers[i], MappingNode, "spec.containers[" \o Itoa(i - 1) \o "] must be object") :
             i \in DOMAIN Containers}
    \cup UNION {ContainerSites(Containers[i]) : i \in DOMAIN Containers}

WrongSites == {s \in Sites : s.node.Kind # s.want}

RECURSIVE SubtreeLines(_)
SubtreeLines(n) == {n.Line} \cup UNION {SubtreeLines(n.Content[i]) : i \in DOMAIN n.Content}

\* the lines of what lies below n, but for the line n itself starts on
LinesBelow(n) == UNION {SubtreeLines(n.Content[i]) : i \in DOMAIN n.Content} \ {n.Line}

Missing(n, key, i, j, msg) ==
    IF n.Kind = MappingNode /\ ~KeyIn(n, key) THEN {[i |-> i, j |-> j, msg |-> msg]} ELSE {}

ProbeIndex(pr) == IF pr = "readinessProbe" THEN 1 ELSE 2

\* the required keys that are absent from a mapping a validator is handed:
\* container i (0 above the containers), entry or probe j, and the message
MissingIn(c, i) ==
    UNION {Missing(c, key, i, 0, "spec.containers[" \o Itoa(i - 1) \o "]." \o key \o " is required") :
              key \in {"name", "image", "resources"}}
    \cup (IF InMap(c, "ports").Kind = SequenceNode
          THEN UNION {Missing(InMap(c, "ports").Content[j], "containerPort", i, j, "containerPort is required") :
                         j \in DOMAIN InMap(c, "ports").Content}
          ELSE {})
    \cup UNION {Missing(InMap(c, pr), "httpGet", i, ProbeIndex(pr), pr \o ".httpGet is required") : pr \in Probes}
    \cup UNION {Missing(InMap(InMap(c, pr), "httpGet"), key, i, ProbeIndex(pr), key \o " is required") :
                   pr \in Probes, key \in {"path", "port"}}

MissingKeys ==
    UNION {Missing(TopNode, key, 0, 0, key \o " is required") :
              key \in {"apiVersion", "kind", "metadata", "spec"}}
    \cup Missing(InMap(TopNode, "metadata"), "name", 0, 0, "metadata.name is required")
    \cup Missing(InMap(TopNode, "spec"), "containers", 0, 0, "spec.containers is required")
    \cup Missing(InMap(InMap(TopNode, "spec"), "os"), "name", 0, 0, "os.name is required")
    \cup UNION {MissingIn(Containers[i], i) : i \in DOMAIN Containers}

(* C7: a composite field holding a node of the wrong kind is reported by   *)
(* exactly one "<field> must be <kind>" error at that node and by no error *)
(* at any line below it; an absent required key is reported exactly for    *)
(* the mappings of the right kind, so that nothing below a wrong node is   *)
(* read and the checks of its siblings still run.                          *)
C7_WrongKindOnce ==
    (Validated /\ TopNode.Kind = MappingNode) =>
        /\ \A s \in WrongSites :
              /\ Cardinality(ErrorsAt(s.node.Line)) = 1
              /\ \A k \in ErrorsAt(s.node.Line) : errs[k].Msg = s.msg
              /\ \A l \in LinesBelow(s.node) : ErrorsAt(l) = {}
        /\ \A k \in ErrorsAt(0) : \E m \in MissingKeys : m.msg = errs[k].Msg
        /\ \A m \in MissingKeys :
              Cardinality({k \in ErrorsAt(0) : errs[k].Msg = m.msg})
                  = Cardinality({x \in MissingKeys : x.msg = m.msg})

C7_Witness ==
    /\ Validated /\ TopNode.Kind = MappingNode
    /\ {s.msg : s \in WrongSites} =
          {"ports must be array", "readinessProbe.httpGet must be object", "resources.requests must be object"}
    /\ \E s \in WrongSites : s.msg = "ports must be array" /\ LinesBelow(s.node) # {}
    /\ {m.msg : m \in MissingKeys} = {"path is required", "port is required"}
    /\ Len(errs) = 5

----------------------------------------------------------------------------
\* the error validatePortInt gives for a port that is no integer
MustBeInt(p) == p.field \o " must be int"

(* C11: a port scalar whose type is not int, a string whose text is a      *)
(* number in range included, is reported "<field> must be int" and nothing *)
(* else; only a scalar typed int reaches the range check.                  *)
C11_PortMustBeInt ==
    Validated =>
        \A p \in PortNodes :
            (p.node.Kind = ScalarNode /\ p.node.Tag # "!!int") =>
                /\ Cardinality(ErrorsAt(p.node.Line)) = 1
                /\ \A k \in ErrorsAt(p.node.Line) : errs[k].Msg = MustBeInt(p)

\* what the type test does decide on: a port scalar of any type is reported
\* "<field> must be int" exactly when its text, white space at both ends
\* dropped, is no decimal integer
PortTextDecides ==
    Validated =>
        \A p \in PortNodes :
            p.node.Kind = ScalarNode =>
                ((\E k \in ErrorsAt(p.node.Line) : errs[k].Msg = MustBeInt(p))
                    <=> Atoi(TrimSpace(p.node.Value)).err)

\* a port that is no scalar is reported "<field> must be int"
NonScalarPortIsNoInt ==
    Validated =>
        \A p \in PortNodes :
            p.node.Kind # ScalarNode =>
                \E k \in ErrorsAt(p.node.Line) : errs[k].Msg = MustBeInt(p)

----------------------------------------------------------------------------
\* a and b hold the same errors at the same indices
SameErrors(a, b) ==
    /\ Len(a) = Len(b)
    /\ \A i \in 1..Len(a) :
          a[i].File = b[i].File /\ a[i].Line = b[i].Line /\ a[i].Msg = b[i].Msg

----------------------------------------------------------------------------
\* every node of the tree has a line number
AllLinesPositive == root # Nil /\ 0 \notin SubtreeLines(root)

\* the elements of spec.containers under the top-level node top
ContainersOf(top) ==
    IF InMap(InMap(top, "spec"), "containers").Kind = SequenceNode
    THEN InMap(InMap(top, "spec"), "containers").Content
    ELSE <<>>

\* the required keys that are absent from the mappings under top
AbsentKeys(top) ==
    UNION {Missing(top, key, 0, 0, key \o " is required") :
              key \in {"apiVersion", "kind", "metadata", "spec"}}
    \cup Missing(InMap(top, "metadata"), "name", 0, 0, "metadata.name is required")
    \cup Missing(InMap(top, "spec"), "containers", 0, 0, "spec.containers is required")
    \cup Missing(InMap(InMap(top, "spec"), "os"), "name", 0, 0, "os.name is required")
    \cup UNION {MissingIn(ContainersOf(top)[i], i) : i \in DOMAIN ContainersOf(top)}

\* spec.containers under top is an array without elements
EmptyContainers(top) ==
    /\ InMap(InMap(top, "spec"), "containers").Kind = SequenceNode
    /\ Len(InMap(InMap(top, "spec"), "containers").Content) = 0

(* C13: in a tree whose nodes all have a line >= 1, an error has line 0    *)
(* exactly when it reports an absent required key or the empty document,   *)
(* and every absent key is reported so; an error about a present node has  *)
(* the line of a node of the validated tree: a composite of the wrong kind *)
(* and a port that is no integer or out of range are reported at their own *)
(* line, and an empty containers array is reported "spec.containers is     *)
(* required" at the line of the array.                                     *)
C13_LineZeroIffAbsent ==
    (Validated /\ AllLinesPositive) =>
        LET top == firstDocument(root)
        IN  /\ \A k \in DOMAIN errs :
                  errs[k].Line = 0 <=>
                      \/ top = Nil /\ errs[k].Msg = EmptyDocumentMsg
                      \/ \E m \in AbsentKeys(top) : m.msg = errs[k].Msg
            /\ \A m \in AbsentKeys(top) :
                  Cardinality({k \in ErrorsAt(0) : errs[k].Msg = m.msg})
                      = Cardinality({x \in AbsentKeys(top) : x.msg = m.msg})
            /\ \A k \in DOMAIN errs : errs[k].Line > 0 => errs[k].Line \in SubtreeLines(top)
            /\ \A s \in WrongSites :
                  \E k \in ErrorsAt(s.node.Line) : errs[k].Msg = s.msg
            /\ \A p \in PortNodes :
                  /\ p.node.Kind # ScalarNode
                        => \E k \in ErrorsAt(p.node.Line) : errs[k].Msg = MustBeInt(p)
                  /\ (p.node.Kind = ScalarNode /\ p.node.Value \in {Itoa(v) : v \in PortInts}
                      /\ (IntOf(p.node.Value) <= 0 \/ IntOf(p.node.Value) >= PortLimit))
                        => \E k \in ErrorsAt(p.node.Line) :
                              errs[k].Msg = p.field \o " value out of range"
            /\ EmptyContainers(top) =>
                  /\ Count("spec.containers is required") = 1
                  /\ \A k \in DOMAIN errs :
                        errs[k].Msg = "spec.containers is required"
                            => errs[k].Line = InMap(InMap(top, "spec"), "containers").Line

C13_Witness ==
    /\ Validated /\ AllLinesPositive
    /\ EmptyContainers(firstDocument(root))
    /\ \E k \in DOMAIN errs : errs[k].Msg = "spec.containers is required" /\ errs[k].Line > 0
    /\ \E k \in DOMAIN errs : errs[k].Msg = "kind is required" /\ errs[k].Line = 0
    /\ \E k \in DOMAIN errs : errs[k].Msg = "metadata.name must be string" /\ errs[k].Line > 0

====
